---- MODULE Spec2Model ----
(***************************************************************************)
(* Model of src/etl_pipeline.py: the RetailETLPipeline orchestrator        *)
(* (connect_database, extract, transform, load, run) and the destination   *)
(* table it writes to.                                                     *)
(*                                                                         *)
(* A DataFrame is a record [cols, rows]: the set of its column names and   *)
(* the sequence of its rows, each row a function from cols to cell values. *)
(* A cell value is a record [k, n, s]: its kind ("int", "float", "str",    *)
(* "ts" for a parsed timestamp, "null" for None/NaN), its number, and its  *)
(* characters when it is a string.                                         *)
(***************************************************************************)
EXTENDS Integers, Sequences, FiniteSets, TLC

VARIABLES
    engine,       \* self.engine: TRUE once create_engine has returned
    batch_size,   \* self.config['batch_size']
    start_time,   \* self.start_time (0 is None)
    end_time,     \* self.end_time (0 is None)
    clock,        \* number of datetime.now() readings so far
    pc,           \* position of run
    caller,       \* the latest call on the orchestrator: "run", or "client"
                  \* for a load called directly
    failed,       \* the stage that raised in the latest run, or "none"
    source,       \* suffix of the source_path given to run
    raw_data,     \* run's local raw_data
    clean_data,   \* run's local clean_data
    run_result,   \* outcome of the latest run: "none", "true", "false", "raised"
    run_start,    \* clock reading taken when the latest run was entered
    stages,       \* stages entered by the latest run, in order
    ldf,          \* load's df argument
    lmode,        \* load's if_exists argument
    li,           \* load's loop variable i
    writes,       \* to_sql calls issued by the latest load, in order
    load_result,  \* outcome of the latest load: "none", "true", "false"
    dest,         \* the destination table
    dest0,        \* the destination table when the latest load was entered
    ops,          \* number of run/load calls made so far
    tdf,          \* the caller's DataFrame handed to transform and validate_data
    targ,         \* the value tdf had when it was handed over
    tpc,          \* position of the call of transform
    tres,         \* its outcome
    tdedup,       \* df_clean's rows after line 141 of that call
    vpc,          \* position of the call of validate_data
    report        \* the latest Validation Report

vars == <<engine, batch_size, start_time, end_time, clock, pc, caller, failed, source,
          raw_data, clean_data, run_result, run_start, stages, ldf, lmode, li,
          writes, load_result, dest, dest0, ops, tdf, targ, tpc, tres, tdedup,
          vpc, report>>

orchVars == <<engine, batch_size, start_time, end_time, clock, pc, caller,
              failed, source, raw_data, clean_data, run_result, run_start, stages, ldf,
              lmode, li, writes, load_result, dest, dest0, ops>>

transVars == <<tdf, targ, tpc, tres, tdedup, vpc, report>>

(***************************************************************************)
(* Bounds of the model.                                                    *)
(***************************************************************************)
MaxRawRows  == 2   \* rows of a table handed to transform directly
MaxFileRows == 2   \* rows of a source file read by run
MaxLoadRows == 3   \* rows of a table handed to load directly
MaxBatch    == 2   \* largest configured batch_size
MaxOps      == 2   \* run/load calls on one orchestrator

(***************************************************************************)
(* Cell values.                                                            *)
(***************************************************************************)
Null     == [k |-> "null",  n |-> 0, s |-> <<>>]
IntV(i)  == [k |-> "int",   n |-> i, s |-> <<>>]
FloatV(i) == [k |-> "float", n |-> i, s |-> <<>>]
StrV(cs) == [k |-> "str",   n |-> 0, s |-> cs]
TsV(d)   == [k |-> "ts",    n |-> d, s |-> <<>>]

IsNull(v) == v.k = "null"
IsNum(v)  == v.k \in {"int", "float"}

Digits == <<"0", "1", "2", "3", "4", "5", "6", "7", "8", "9">>
IsDigit(c) == \E d \in 1..Len(Digits) : Digits[d] = c
DigitVal(c) == (CHOOSE d \in 1..Len(Digits) : Digits[d] = c) - 1

RECURSIVE DecVal(_)
DecVal(cs) ==
    IF cs = <<>> THEN 0
    ELSE DecVal(SubSeq(cs, 1, Len(cs) - 1)) * 10 + DigitVal(cs[Len(cs)])

AllDigits(cs) == cs # <<>> /\ \A j \in 1..Len(cs) : IsDigit(cs[j])

RECURSIVE Repeat(_, _)
Repeat(cs, times) == IF times <= 0 THEN <<>> ELSE cs \o Repeat(cs, times - 1)

(***************************************************************************)
(* Library operations transform applies to cells.                          *)
(***************************************************************************)
Fail == [err |-> TRUE, v |-> Null]
Val(v) == [err |-> FALSE, v |-> v]

\* Variant: the product of two numbers is always a float.
PyMulFloat(a, b) ==
    IF IsNull(a) \/ IsNull(b) THEN Val(Null)
    ELSE IF IsNum(a) /\ IsNum(b) THEN Val(FloatV(a.n * b.n))
    ELSE IF a.k = "str" /\ b.k = "int" THEN Val(StrV(Repeat(a.s, b.n)))
    ELSE IF a.k = "int" /\ b.k = "str" THEN Val(StrV(Repeat(b.s, a.n)))
    ELSE Fail

\* The * of two Python objects, as Series.__mul__ applies it to a row of an
\* object column: a null operand gives NaN (the operation is masked), numbers
\* multiply, a str times an int repeats the str, anything else raises
\* TypeError.
PyMul(a, b) ==
    IF IsNull(a) \/ IsNull(b) THEN Val(Null)
    ELSE IF a.k = "int" /\ b.k = "int" THEN Val(IntV(a.n * b.n))
    ELSE IF IsNum(a) /\ IsNum(b) THEN Val(FloatV(a.n * b.n))
    ELSE IF a.k = "str" /\ b.k = "int" THEN Val(StrV(Repeat(a.s, b.n)))
    ELSE IF a.k = "int" /\ b.k = "str" THEN Val(StrV(Repeat(b.s, a.n)))
    ELSE Fail

\* pd.to_numeric(errors='coerce') on one cell: a number stays, a string of
\* decimal digits is parsed, everything else becomes NaN.
ToNumeric(v) ==
    IF IsNum(v) THEN v
    ELSE IF v.k = "str" /\ AllDigits(v.s) THEN IntV(DecVal(v.s))
    ELSE Null

\* A string of the form YYYY-MM-DD naming a month 1..12 and a day 1..31.
IsIsoDate(cs) ==
    /\ Len(cs) = 10
    /\ cs[5] = "-" /\ cs[8] = "-"
    /\ \A j \in {1, 2, 3, 4, 6, 7, 9, 10} : IsDigit(cs[j])
    /\ DecVal(SubSeq(cs, 6, 7)) \in 1..12
    /\ DecVal(SubSeq(cs, 9, 10)) \in 1..31

IsoDay(cs) ==
    DecVal(SubSeq(cs, 1, 4)) * 10000 + DecVal(SubSeq(cs, 6, 7)) * 100
        + DecVal(SubSeq(cs, 9, 10))

\* Variant: pd.to_datetime(errors='coerce'), an unparseable date becomes NaT.
ToDatetimeCoerce(v) ==
    IF v.k = "ts" \/ IsNull(v) THEN Val(v)
    ELSE IF v.k = "str" /\ IsIsoDate(v.s) THEN Val(TsV(IsoDay(v.s)))
    ELSE Val(Null)

\* pd.to_datetime on one cell: a timestamp stays, null becomes NaT, an ISO
\* date string is parsed, any other string raises.
ToDatetime(v) ==
    IF v.k = "ts" \/ IsNull(v) THEN Val(v)
    ELSE IF v.k = "str" /\ IsIsoDate(v.s) THEN Val(TsV(IsoDay(v.s)))
    ELSE Fail

\* Variant: the filter keeps zero (>= 0 for > 0).
PositiveOrZero(v) == IsNum(v) /\ v.n >= 0

\* series > 0 on one cell of a numeric column: NaN compares false.
Positive(v) == IsNum(v) /\ v.n > 0

(***************************************************************************)
(* DataFrames.                                                             *)
(***************************************************************************)
Frame(cols, rows) == [cols |-> cols, rows |-> rows]
NoFrame == Frame({}, <<>>)

\* Variant: drop_duplicates(keep='last'), a row is dropped when a later row
\* equals it.
RECURSIVE DropDuplicatesLast(_)
DropDuplicatesLast(rows) ==
    IF rows = <<>> THEN <<>>
    ELSE LET rest == DropDuplicatesLast(Tail(rows))
         IN  IF \E j \in 2..Len(rows) : rows[j] = rows[1]
             THEN rest ELSE <<rows[1]>> \o rest

\* DataFrame.drop_duplicates(): a row is dropped when an earlier row equals it
\* on every column.
RECURSIVE DropDuplicates(_)
DropDuplicates(rows) ==
    IF rows = <<>> THEN <<>>
    ELSE LET n    == Len(rows)
             init == DropDuplicates(SubSeq(rows, 1, n - 1))
         IN  IF \E j \in 1..(n - 1) : rows[j] = rows[n]
             THEN init ELSE Append(init, rows[n])

\* DataFrame.dropna(subset=...): rows with a null in one of the columns go.
DropNa(rows, subset) ==
    LET keep(r) == \A c \in subset : ~IsNull(r[c]) IN SelectSeq(rows, keep)

SetCol(r, c, v) == [d \in (DOMAIN r) \cup {c} |-> IF d = c THEN v ELSE r[d]]

(***************************************************************************)
(* RetailETLPipeline.transform                                             *)
(***************************************************************************)
Raised == [ok |-> FALSE, df |-> NoFrame]
Returned(df) == [ok |-> TRUE, df |-> df]

\* lines 147-149: the date column parsed
ParseDates(rows) ==
    [j \in 1..Len(rows) |-> SetCol(rows[j], "date", ToDatetime(rows[j]["date"]).v)]

\* lines 151-153: total_amount = quantity * price, before the coercion
AddTotal(rows) ==
    [j \in 1..Len(rows) |->
        SetCol(rows[j], "total_amount", PyMul(rows[j]["quantity"], rows[j]["price"]).v)]

\* lines 155-159: one numeric column coerced
Coerce(rows, c) ==
    [j \in 1..Len(rows) |-> SetCol(rows[j], c, ToNumeric(rows[j][c]))]

\* lines 161-165: df_clean[df_clean[c] > 0]
KeepPositive(rows, c) ==
    LET keep(r) == Positive(r[c]) IN SelectSeq(rows, keep)

Transform(df) ==
    LET cols  == df.cols
        dedup == DropDuplicates(df.rows)
    IN  IF ~({"transaction_id", "date"} \subseteq cols) THEN Raised  \* KeyError
        ELSE
        LET kept == DropNa(dedup, {"transaction_id", "date"})
        IN  IF \E j \in 1..Len(kept) : ToDatetime(kept[j]["date"]).err
            THEN Raised
            ELSE
            LET dated    == ParseDates(kept)
                both     == {"quantity", "price"} \subseteq cols
            IN  IF both /\ \E j \in 1..Len(dated) :
                               PyMul(dated[j]["quantity"], dated[j]["price"]).err
                THEN Raised  \* TypeError
                ELSE
                LET total  == IF both THEN AddTotal(dated) ELSE dated
                    cols2  == IF both THEN cols \cup {"total_amount"} ELSE cols
                    numq   == IF "quantity" \in cols2
                              THEN Coerce(total, "quantity") ELSE total
                    nump   == IF "price" \in cols2
                              THEN Coerce(numq, "price") ELSE numq
                    posq   == IF "quantity" \in cols2
                              THEN KeepPositive(nump, "quantity") ELSE nump
                    posp   == IF "price" \in cols2
                              THEN KeepPositive(posq, "price") ELSE posq
                IN  Returned(Frame(cols2, posp))

(***************************************************************************)
(* RetailETLPipeline.validate_data. The report's data_types and the order  *)
(* of its columns belong to the columns' dtypes and index, which a Frame   *)
(* does not carry; they are left out of the report.                        *)
(***************************************************************************)
\* df.isnull().sum().to_dict()
MissingValues(df) ==
    [c \in df.cols |-> Cardinality({j \in 1..Len(df.rows) : IsNull(df.rows[j][c])})]

\* Variant: duplicated(keep=False), every row that has an equal row is marked.
DuplicatedAll(rows) ==
    [j \in 1..Len(rows) |-> \E i \in 1..Len(rows) : i # j /\ rows[i] = rows[j]]

\* df.duplicated(): a row is marked when an earlier row equals it on every
\* column.
Duplicated(rows) ==
    [j \in 1..Len(rows) |-> \E i \in 1..(j - 1) : rows[i] = rows[j]]

NoReport ==
    [total_records |-> 0, missing_values |-> [c \in {} |-> 0],
     duplicate_records |-> 0, columns |-> {}]

ValidateData(df) ==
    [total_records     |-> Len(df.rows),
     missing_values    |-> MissingValues(df),
     duplicate_records |-> Cardinality({j \in 1..Len(df.rows) : Duplicated(df.rows)[j]}),
     columns           |-> df.cols]

(***************************************************************************)
(* Tables handed to transform directly.                                    *)
(***************************************************************************)
Iso1 == <<"2", "0", "2", "4", "-", "0", "1", "-", "0", "1">>

AllCols == {"transaction_id", "date", "quantity", "price"}

Row(t, d, q, p) ==
    [c \in AllCols |-> CASE c = "transaction_id" -> t
                         [] c = "date"           -> d
                         [] c = "quantity"       -> q
                         [] c = "price"          -> p]

QtyVals   == {IntV(2), IntV(-1), StrV(<<"2">>), StrV(<<"x">>), Null}
PriceVals == {IntV(3), FloatV(4), IntV(0)}

\* Every quantity with every price under a good id and date, and rows whose
\* id or date is missing or whose date does not parse.
RawRows ==
    {Row(IntV(1), StrV(Iso1), q, p) : q \in QtyVals, p \in PriceVals} \cup
    { Row(Null, StrV(Iso1), IntV(2), IntV(3)),
      Row(IntV(1), Null, IntV(2), IntV(3)),
      Row(IntV(1), Null, StrV(<<"2">>), FloatV(4)),
      Row(IntV(1), StrV(<<"x">>), IntV(2), IntV(3)),
      Row(IntV(1), StrV(<<"x">>), IntV(-1), IntV(3)),
      Row(Null, StrV(<<"x">>), IntV(2), IntV(3)) }

ColSets ==
    { AllCols,
      {"transaction_id", "date", "quantity"},
      {"transaction_id", "date", "price"},
      {"transaction_id", "quantity", "price"} }

RowsOver(cols) == {[c \in cols |-> r[c]] : r \in RawRows}

SeqsUpTo(S, n) == UNION {[1..m -> S] : m \in 0..n}

\* Rows that already carry a total_amount, right or wrong, under a date that
\* is a string or a timestamp.
TotalRows ==
    {[c \in AllCols \cup {"total_amount"} |->
         IF c = "total_amount" THEN t ELSE Row(i, d, IntV(2), p)[c]] :
       i \in {IntV(1), IntV(2)},
       d \in {StrV(Iso1), TsV(IsoDay(Iso1))}, p \in {IntV(3), FloatV(4)},
       t \in {IntV(6), IntV(5), FloatV(8)}}

\* Two rows for longer tables, in which a row can come back after another.
DupRows ==
    { Row(IntV(1), StrV(Iso1), IntV(2), IntV(3)),
      Row(Null, StrV(Iso1), IntV(2), IntV(3)) }

RawTables(n) ==
    UNION {{Frame(cols, rows) : rows \in SeqsUpTo(RowsOver(cols), n)} : cols \in ColSets}
    \cup {Frame(AllCols \cup {"total_amount"}, rows) : rows \in SeqsUpTo(TotalRows, n)}
    \cup {Frame(AllCols, rows) : rows \in SeqsUpTo(DupRows, n + 1)}

(***************************************************************************)
(* The destination table and DataFrame.to_sql.                             *)
(***************************************************************************)
Absent == [exists |-> FALSE, rows |-> <<>>]
Table(rows) == [exists |-> TRUE, rows |-> rows]

Modes == {"append", "replace", "fail"}

\* to_sql(if_exists='fail') raises ValueError when the table exists.
Refused(d, mode) == mode = "fail" /\ d.exists

\* The table after a to_sql call that succeeded.
Written(d, mode, rows) ==
    IF mode = "replace" THEN Table(rows) ELSE Table(d.rows \o rows)

\* The tables a to_sql call that raised can leave behind: the rows it carried
\* are never inserted, but the table may have been created, or dropped by
\* 'replace', before the insert failed.
Unwritten(d, mode) ==
    IF Refused(d, mode) THEN {d}
    ELSE {d} \cup (IF d.exists THEN {} ELSE {Table(<<>>)})
             \cup (IF mode = "replace" THEN {Absent, Table(<<>>)} ELSE {})

(***************************************************************************)
(* Inputs of the orchestrator.                                             *)
(***************************************************************************)
\* Rows of the source files run reads: two clean rows and one with an
\* unparseable date.
FileRows ==
    { Row(IntV(1), StrV(Iso1), IntV(2), IntV(3)),
      Row(IntV(1), StrV(Iso1), IntV(2), FloatV(4)),
      Row(IntV(1), StrV(<<"x">>), IntV(2), IntV(3)) }

FileTables == {Frame(AllCols, rows) : rows \in SeqsUpTo(FileRows, MaxFileRows)}

Suffixes == {"csv", "xlsx", "json"}

\* Rows of the tables a client hands to load: the j-th row is one of two
\* clean rows, so that tables repeat rows and are sensitive to order.
CleanRow(p) ==
    Transform(Frame(AllCols, <<Row(IntV(1), StrV(Iso1), IntV(2), p)>>)).df.rows[1]

LoadRow(j) == IF j % 3 = 1 THEN CleanRow(IntV(3)) ELSE CleanRow(FloatV(4))

LoadTables ==
    {Frame(AllCols \cup {"total_amount"}, [j \in 1..n |-> LoadRow(j)]) :
        n \in 0..MaxLoadRows}

BatchSizes == -1..MaxBatch

(***************************************************************************)
(* RetailETLPipeline.__init__                                              *)
(***************************************************************************)
OrchInit ==
    /\ engine = FALSE
    /\ batch_size \in BatchSizes
    /\ start_time = 0
    /\ end_time = 0
    /\ clock = 0
    /\ pc = "idle"
    /\ caller = "none"
    /\ failed = "none"
    /\ source = "none"
    /\ raw_data = NoFrame
    /\ clean_data = NoFrame
    /\ run_result = "none"
    /\ run_start = 0
    /\ stages = <<>>
    /\ ldf = NoFrame
    /\ lmode = "append"
    /\ li = 0
    /\ writes = <<>>
    /\ load_result = "none"
    /\ dest = Absent
    /\ dest0 = Absent
    /\ ops = 0

TransInit(t) ==
    /\ tdf = t
    /\ targ = t
    /\ tpc = "ready"
    /\ tres = Raised
    /\ tdedup = <<>>
    /\ vpc = "ready"
    /\ report = NoReport

Init == OrchInit /\ TransInit(NoFrame)

(***************************************************************************)
(* RetailETLPipeline.run                                                   *)
(***************************************************************************)
\* run returns (or raises): its locals are gone.
RunReturn(res) ==
    /\ run_result' = res
    /\ pc' = "idle"
    /\ raw_data' = NoFrame
    /\ clean_data' = NoFrame

\* line 225: run is entered and reads the clock.
RunCall ==
    /\ pc = "idle"
    /\ ops < MaxOps
    /\ \E sfx \in Suffixes : source' = sfx
    /\ ops' = ops + 1
    /\ clock' = clock + 1
    /\ start_time' = clock + 1
    /\ run_start' = clock + 1
    /\ run_result' = "none"
    /\ stages' = <<>>
    /\ writes' = <<>>
    /\ load_result' = "none"
    /\ dest0' = dest
    /\ caller' = "run"
    /\ failed' = "none"
    /\ pc' = "connect"
    /\ UNCHANGED <<engine, batch_size, end_time, raw_data, clean_data, ldf,
                   lmode, li, dest>>
    /\ UNCHANGED transVars

\* Variant: the outcome of connect_database is ignored.
RunConnectIgnored ==
    /\ pc = "connect"
    /\ stages' = Append(stages, "connect")
    /\ pc' = "extract"
    /\ \/ engine' = TRUE /\ UNCHANGED failed
       \/ engine' = engine /\ failed' = "connect"
    /\ UNCHANGED <<batch_size, start_time, end_time, clock, caller, source,
                   run_start, ldf, lmode, li, writes, load_result, dest, dest0,
                   ops, run_result, raw_data, clean_data>>
    /\ UNCHANGED transVars

\* lines 233-235 and connect_database: create_engine returns or raises.
RunConnect ==
    /\ pc = "connect"
    /\ stages' = Append(stages, "connect")
    /\ \/ /\ engine' = TRUE
          /\ pc' = "extract"
          /\ UNCHANGED <<run_result, raw_data, clean_data, failed>>
       \/ /\ engine' = engine
          /\ failed' = "connect"
          /\ RunReturn("false")
    /\ UNCHANGED <<batch_size, start_time, end_time, clock, caller, source,
                   run_start, ldf, lmode, li, writes, load_result, dest, dest0,
                   ops>>
    /\ UNCHANGED transVars

\* Variant: a file of any suffix is handed to the csv reader.
RunExtractAnySuffix ==
    /\ pc = "extract"
    /\ stages' = Append(stages, "extract")
    /\ \/ /\ \E t \in FileTables : raw_data' = t
          /\ pc' = "transform"
          /\ UNCHANGED <<run_result, clean_data, failed>>
       \/ /\ failed' = "extract"
          /\ RunReturn("false")
    /\ UNCHANGED <<engine, batch_size, start_time, end_time, clock, caller,
                   source, run_start, ldf, lmode, li, writes, load_result, dest,
                   dest0, ops>>
    /\ UNCHANGED transVars

\* lines 237-238 and extract: the reader is chosen by suffix; the read
\* returns the file's table or raises, an unknown suffix raises ValueError.
RunExtract ==
    /\ pc = "extract"
    /\ stages' = Append(stages, "extract")
    /\ \/ /\ source \in {"csv", "xlsx"}
          /\ \E t \in FileTables : raw_data' = t
          /\ pc' = "transform"
          /\ UNCHANGED <<run_result, clean_data, failed>>
       \/ /\ failed' = "extract"
          /\ RunReturn("false")
    /\ UNCHANGED <<engine, batch_size, start_time, end_time, clock, caller,
                   source, run_start, ldf, lmode, li, writes, load_result, dest,
                   dest0, ops>>
    /\ UNCHANGED transVars

\* lines 240-241: transform returns the clean table or raises.
RunTransform ==
    /\ pc = "transform"
    /\ stages' = Append(stages, "transform")
    /\ LET r == Transform(raw_data)
       IN  IF r.ok
           THEN /\ clean_data' = r.df
                /\ pc' = "load"
                /\ UNCHANGED <<run_result, raw_data, failed>>
           ELSE /\ failed' = "transform"
                /\ RunReturn("false")
    /\ UNCHANGED <<engine, batch_size, start_time, end_time, clock, caller,
                   source, run_start, ldf, lmode, li, writes, load_result, dest,
                   dest0, ops>>
    /\ UNCHANGED transVars

\* lines 243-244: load is called with the default if_exists.
RunLoad ==
    /\ pc = "load"
    /\ stages' = Append(stages, "load")
    /\ ldf' = clean_data
    /\ lmode' = "append"
    /\ pc' = "l_enter"
    /\ UNCHANGED <<engine, batch_size, start_time, end_time, clock, caller, failed, source,
                   raw_data, clean_data, run_result, run_start, li, writes,
                   load_result, dest, dest0, ops>>
    /\ UNCHANGED transVars

\* Variant: run returns True whatever load returned.
RunFinishTrue ==
    /\ pc = "finish"
    /\ clock' = clock + 1
    /\ end_time' = clock + 1
    /\ RunReturn("true")
    /\ UNCHANGED <<engine, batch_size, start_time, caller, failed, source, run_start,
                   stages, ldf, lmode, li, writes, load_result, dest, dest0, ops>>
    /\ UNCHANGED transVars

\* lines 246-256: after load has returned, the clock is read and load's
\* outcome is returned.
RunFinish ==
    /\ pc = "finish"
    /\ clock' = clock + 1
    /\ end_time' = clock + 1
    /\ RunReturn(load_result)
    /\ UNCHANGED <<engine, batch_size, start_time, caller, failed, source, run_start,
                   stages, ldf, lmode, li, writes, load_result, dest, dest0, ops>>
    /\ UNCHANGED transVars

(***************************************************************************)
(* RetailETLPipeline.load                                                  *)
(***************************************************************************)
\* load returns to whoever called it.
LoadReturn(res) ==
    /\ load_result' = res
    /\ pc' = IF caller = "run" THEN "finish" ELSE "idle"

\* A client calls load(df, table_name, if_exists) on the orchestrator.
LoadCall ==
    /\ pc = "idle"
    /\ ops < MaxOps
    /\ \E t \in LoadTables : ldf' = t
    /\ \E m \in Modes : lmode' = m
    /\ ops' = ops + 1
    /\ caller' = "client"
    /\ writes' = <<>>
    /\ load_result' = "none"
    /\ dest0' = dest
    /\ pc' = "l_enter"
    /\ UNCHANGED <<engine, batch_size, start_time, end_time, clock, failed, source,
                   raw_data, clean_data, run_result, run_start, stages, li, dest>>
    /\ UNCHANGED transVars

\* Variant: load does not look at self.engine.
LoadEnterUnguarded ==
    /\ pc = "l_enter"
    /\ IF batch_size # 0
       THEN /\ li' = 0
            /\ pc' = "l_loop"
            /\ UNCHANGED load_result
       ELSE /\ LoadReturn("false")
            /\ UNCHANGED li
    /\ UNCHANGED <<engine, batch_size, start_time, end_time, clock, caller,
                   failed, source, raw_data, clean_data, run_result, run_start, stages,
                   ldf, lmode, writes, dest, dest0, ops>>
    /\ UNCHANGED transVars

\* lines 188-194: no engine raises RuntimeError, batch_size 0 raises
\* ZeroDivisionError; both are caught at line 210 and load returns False.
LoadEnter ==
    /\ pc = "l_enter"
    /\ IF engine /\ batch_size # 0
       THEN /\ li' = 0
            /\ pc' = "l_loop"
            /\ UNCHANGED load_result
       ELSE /\ LoadReturn("false")
            /\ UNCHANGED li
    /\ UNCHANGED <<engine, batch_size, start_time, end_time, clock, caller,
                   failed, source, raw_data, clean_data, run_result, run_start, stages,
                   ldf, lmode, writes, dest, dest0, ops>>
    /\ UNCHANGED transVars

\* Variant: the loop bound is inclusive.
InRangeInclusive(i, n, step) == step > 0 /\ i <= n

\* range(0, len(df), batch_size) has a next value i.
InRange(i, n, step) == step > 0 /\ i < n

\* df.iloc[i:i + batch_size]
Batch(rows, i, step) ==
    SubSeq(rows, i + 1, IF i + step < Len(rows) THEN i + step ELSE Len(rows))

\* Variant: if_exists is handed to every chunk.
WriteModeEvery(i, mode) == mode

\* Variant: if_exists is handed to no chunk.
WriteModeNever(i, mode) == "append"

\* line 201
WriteMode(i, mode) == IF i = 0 THEN mode ELSE "append"

Attempt(mode, rows, ok) == [mode |-> mode, rows |-> rows, ok |-> ok]

\* Variant: a chunk whose write raised is skipped and the loop goes on.
LoadWriteSkipFailed ==
    /\ pc = "l_loop"
    /\ InRange(li, Len(ldf.rows), batch_size)
    /\ LET batch == Batch(ldf.rows, li, batch_size)
           mode  == WriteMode(li, lmode)
       IN  \/ /\ ~Refused(dest, mode)
              /\ dest' = Written(dest, mode, batch)
              /\ writes' = Append(writes, Attempt(mode, batch, TRUE))
           \/ /\ \E d \in Unwritten(dest, mode) : dest' = d
              /\ writes' = Append(writes, Attempt(mode, batch, FALSE))
    /\ li' = li + batch_size
    /\ UNCHANGED <<pc, load_result>>
    /\ UNCHANGED <<engine, batch_size, start_time, end_time, clock, caller,
                   failed, source, raw_data, clean_data, run_result, run_start, stages,
                   ldf, lmode, dest0, ops>>
    /\ UNCHANGED transVars

\* Variant: a chunk whose write raised is tried again.
LoadWriteRetry ==
    /\ pc = "l_loop"
    /\ InRange(li, Len(ldf.rows), batch_size)
    /\ LET batch == Batch(ldf.rows, li, batch_size)
           mode  == WriteMode(li, lmode)
       IN  \/ /\ ~Refused(dest, mode)
              /\ dest' = Written(dest, mode, batch)
              /\ writes' = Append(writes, Attempt(mode, batch, TRUE))
              /\ li' = li + batch_size
           \/ /\ \E d \in Unwritten(dest, mode) : dest' = d
              /\ writes' = Append(writes, Attempt(mode, batch, FALSE))
              /\ UNCHANGED li
    /\ UNCHANGED <<pc, load_result>>
    /\ UNCHANGED <<engine, batch_size, start_time, end_time, clock, caller,
                   failed, source, raw_data, clean_data, run_result, run_start, stages,
                   ldf, lmode, dest0, ops>>
    /\ UNCHANGED transVars

\* lines 196-205: one iteration of the loop, whose to_sql call returns or
\* raises; line 210 turns the exception into False.
LoadWrite ==
    /\ pc = "l_loop"
    /\ InRange(li, Len(ldf.rows), batch_size)
    /\ LET batch == Batch(ldf.rows, li, batch_size)
           mode  == WriteMode(li, lmode)
       IN  \/ /\ ~Refused(dest, mode)
              /\ dest' = Written(dest, mode, batch)
              /\ writes' = Append(writes, Attempt(mode, batch, TRUE))
              /\ li' = li + batch_size
              /\ UNCHANGED <<pc, load_result>>
           \/ /\ \E d \in Unwritten(dest, mode) : dest' = d
              /\ writes' = Append(writes, Attempt(mode, batch, FALSE))
              /\ LoadReturn("false")
              /\ UNCHANGED li
    /\ UNCHANGED <<engine, batch_size, start_time, end_time, clock, caller,
                   failed, source, raw_data, clean_data, run_result, run_start, stages,
                   ldf, lmode, dest0, ops>>
    /\ UNCHANGED transVars

\* lines 207-208: the loop is over.
LoadDone ==
    /\ pc = "l_loop"
    /\ ~InRange(li, Len(ldf.rows), batch_size)
    /\ LoadReturn("true")
    /\ UNCHANGED <<engine, batch_size, start_time, end_time, clock, caller,
                   failed, source, raw_data, clean_data, run_result, run_start, stages,
                   ldf, lmode, li, writes, dest, dest0, ops>>
    /\ UNCHANGED transVars

(***************************************************************************)
(* main: the command line entry point                                      *)
(***************************************************************************)
\* What the main actions leave alone.
mainKept == <<batch_size, clock, run_start, clean_data, ldf, lmode, li, dest,
              tdf, targ, tpc, tres, tdedup, vpc>>

\* Variant: --validate-only is not looked at, main goes on to run.
MainCallFlagIgnored ==
    /\ pc = "idle"
    /\ ops < MaxOps
    /\ \E sfx \in Suffixes : source' = sfx
    /\ ops' = ops + 1
    /\ engine' = FALSE
    /\ start_time' = 0
    /\ end_time' = 0
    /\ caller' = "main"
    /\ failed' = "none"
    /\ stages' = <<>>
    /\ writes' = <<>>
    /\ load_result' = "none"
    /\ run_result' = "none"
    /\ dest0' = dest
    /\ report' = NoReport
    /\ pc' = "connect"
    /\ UNCHANGED raw_data
    /\ UNCHANGED mainKept

\* lines 283-314: main --validate-only parses its arguments and constructs a
\* new orchestrator (lines 43-58: no engine, no timestamps).
MainCall ==
    /\ pc = "idle"
    /\ ops < MaxOps
    /\ \E sfx \in Suffixes : source' = sfx
    /\ ops' = ops + 1
    /\ engine' = FALSE
    /\ start_time' = 0
    /\ end_time' = 0
    /\ caller' = "main"
    /\ failed' = "none"
    /\ stages' = <<>>
    /\ writes' = <<>>
    /\ load_result' = "none"
    /\ run_result' = "none"
    /\ dest0' = dest
    /\ report' = NoReport
    /\ pc' = "m_extract"
    /\ UNCHANGED raw_data
    /\ UNCHANGED mainKept

\* line 315 and extract: the table is read, or the exception of extract
\* leaves main and ends the process.
MainExtract ==
    /\ pc = "m_extract"
    /\ stages' = Append(stages, "extract")
    /\ \/ /\ source \in {"csv", "xlsx"}
          /\ \E t \in FileTables : raw_data' = t
          /\ pc' = "m_validate"
          /\ UNCHANGED failed
       \/ /\ failed' = "extract"
          /\ raw_data' = NoFrame
          /\ pc' = "idle"
    /\ UNCHANGED <<engine, start_time, end_time, caller, source, ops, writes,
                   load_result, run_result, dest0, report>>
    /\ UNCHANGED mainKept

\* lines 316-317: validate_data reports on the raw table and main ends.
MainValidate ==
    /\ pc = "m_validate"
    /\ stages' = Append(stages, "validate")
    /\ report' = ValidateData(raw_data)
    /\ raw_data' = NoFrame
    /\ pc' = "idle"
    /\ UNCHANGED <<engine, start_time, end_time, caller, source, ops, writes,
                   load_result, run_result, dest0, failed>>
    /\ UNCHANGED mainKept

Next ==
    \/ RunCall \/ RunConnect \/ RunExtract \/ RunTransform \/ RunLoad
    \/ RunFinish \/ LoadCall \/ LoadEnter \/ LoadWrite \/ LoadDone
    \/ MainCall \/ MainExtract \/ MainValidate

Spec == Init /\ [][Next]_vars

(***************************************************************************)
(* transform called on its own, on every table of RawTables(MaxRawRows).   *)
(***************************************************************************)
InitT == OrchInit /\ batch_size = 1 /\ \E t \in RawTables(MaxRawRows) : TransInit(t)

\* Variant: transform works on df itself, not on a copy.
CallTransformInPlace ==
    /\ tpc = "ready"
    /\ tres' = Transform(tdf)
    /\ tdedup' = DropDuplicates(tdf.rows)
    /\ tpc' = "done"
    /\ tdf' = IF Transform(tdf).ok THEN Transform(tdf).df
              ELSE Frame(tdf.cols, DropDuplicates(tdf.rows))
    /\ UNCHANGED <<targ, vpc, report>>
    /\ UNCHANGED orchVars

\* transform works on df.copy() (line 137) and returns or raises; the
\* caller's table is not touched.
CallTransform ==
    /\ tpc = "ready"
    /\ tres' = Transform(tdf)
    /\ tdedup' = DropDuplicates(tdf.rows)
    /\ tpc' = "done"
    /\ UNCHANGED <<tdf, targ, vpc, report>>
    /\ UNCHANGED orchVars

\* validate_data reads df and returns the report.
CallValidate ==
    /\ vpc = "ready"
    /\ report' = ValidateData(tdf)
    /\ vpc' = "done"
    /\ UNCHANGED <<tdf, targ, tpc, tres, tdedup>>
    /\ UNCHANGED orchVars

\* The caller hands the table transform returned to transform and
\* validate_data again.
CallAgain ==
    /\ tpc = "done"
    /\ tres.ok
    /\ tres.df # tdf
    /\ tdf' = tres.df
    /\ targ' = tres.df
    /\ tpc' = "ready"
    /\ tres' = Raised
    /\ tdedup' = <<>>
    /\ vpc' = "ready"
    /\ report' = NoReport
    /\ UNCHANGED orchVars

NextT == CallTransform \/ CallValidate \/ CallAgain

SpecT == InitT /\ [][NextT]_vars

(***************************************************************************)
(* Properties.                                                             *)
(***************************************************************************)
Min(a, b) == IF a < b THEN a ELSE b
CeilDiv(n, b) == (n + b - 1) \div b
IsSuffix(t, u) == Len(t) <= Len(u) /\ SubSeq(u, Len(u) - Len(t) + 1, Len(u)) = t

LoadReturned == load_result # "none"
RunReturned  == caller = "run" /\ pc = "idle" /\ run_result # "none"
AllWritesOk  == \A j \in 1..Len(writes) : writes[j].ok
AllStages    == <<"connect", "extract", "transform", "load">>
InLoad       == pc \in {"l_enter", "l_loop"}
Staged(st)   == \E j \in 1..Len(stages) : stages[j] = st

\* C1: a load that has returned, made with an engine and a batch_size b >= 1
\* and in which no write raised, has issued exactly ceil(n/b) writes; the i-th
\* carries rows (i-1)*b+1 .. min(i*b, n) of the table; the first has the
\* caller's mode and every later one has mode append.
C1_Batching ==
    (LoadReturned /\ engine /\ batch_size >= 1 /\ AllWritesOk) =>
        LET n == Len(ldf.rows)
            b == batch_size
        IN  /\ Len(writes) = CeilDiv(n, b)
            /\ \A i \in 1..Len(writes) :
                  /\ writes[i].rows = SubSeq(ldf.rows, (i - 1) * b + 1, Min(i * b, n))
                  /\ writes[i].mode = IF i = 1 THEN lmode ELSE "append"

C1_Witness ==
    /\ LoadReturned /\ engine /\ batch_size = 2 /\ AllWritesOk
    /\ Len(ldf.rows) = 3 /\ Len(writes) = 2 /\ lmode = "replace"

\* C2: when the k-th write of a load raised, it is the last write the load
\* ever issues, the load is over and has returned False, every earlier write
\* succeeded and the rows of chunks 1..k-1 are the last rows of the
\* destination.
C2_PartialFailure ==
    \A k \in 1..Len(writes) :
        ~writes[k].ok =>
            /\ k = Len(writes)
            /\ ~InLoad
            /\ load_result = "false"
            /\ \A j \in 1..(k - 1) : writes[j].ok
            /\ k > 1 => dest.exists
            /\ IsSuffix(SubSeq(ldf.rows, 1, (k - 1) * batch_size), dest.rows)

C2_Witness ==
    /\ load_result = "false" /\ batch_size = 1 /\ Len(ldf.rows) = 3
    /\ Len(writes) = 2 /\ ~writes[2].ok
    /\ dest.rows = dest0.rows \o writes[1].rows
    /\ dest.rows # dest0.rows

\* C3: a run in which connect_database failed has returned False at once:
\* connect was its only stage, entered once, and it wrote nothing.
C3_ConnectFatal ==
    (caller = "run" /\ failed = "connect") =>
        /\ pc = "idle"
        /\ run_result = "false"
        /\ stages = <<"connect">>
        /\ writes = <<>>
        /\ dest = dest0

C3_Witness ==
    RunReturned /\ failed = "connect" /\ run_result = "false" /\ dest.rows # <<>>

\* C4: a run on a source_path whose suffix is neither .csv nor .xlsx never
\* enters transform or load, writes nothing and, once over, has returned
\* False.
C4_UnsupportedFatal ==
    (caller = "run" /\ source \notin {"csv", "xlsx"}) =>
        /\ ~Staged("transform") /\ ~Staged("load")
        /\ pc \in {"idle", "connect", "extract"}
        /\ writes = <<>>
        /\ dest = dest0
        /\ pc = "idle" => run_result = "false"

C4_Witness ==
    /\ RunReturned /\ source = "json" /\ failed = "extract"
    /\ stages = <<"connect", "extract">> /\ run_result = "false"

\* A row that survives dedup and null-dropping and whose date does not parse.
BadDate(r) ==
    /\ ~IsNull(r["transaction_id"]) /\ ~IsNull(r["date"])
    /\ r["date"].k = "str" /\ ~IsIsoDate(r["date"].s)

\* C5: a run in which transform raised has returned False without calling
\* load and without a write; and a run gets past transform only with the
\* table transform returned, never on a table with an unparseable date.
C5_TransformFatal ==
    /\ (caller = "run" /\ failed = "transform") =>
          /\ pc = "idle"
          /\ run_result = "false"
          /\ stages = <<"connect", "extract", "transform">>
          /\ writes = <<>>
          /\ dest = dest0
    /\ (caller = "run" /\ pc \in {"load", "l_enter", "l_loop", "finish"}) =>
          /\ Transform(raw_data).ok
          /\ clean_data = Transform(raw_data).df
          /\ \A j \in 1..Len(raw_data.rows) : ~BadDate(raw_data.rows[j])

C5_Witness ==
    /\ RunReturned /\ failed = "transform" /\ run_result = "false"
    /\ stages = <<"connect", "extract", "transform">>

\* C6: a run never ends by raising; once it has returned its result is
\* True or False, and it is True exactly when no stage raised, all four
\* stages were entered and load returned True. A run enters at most four
\* stages and its load loop is bounded: i advances by batch_size with every
\* write and stays below len(df).
C6_BooleanResult ==
    /\ run_result \in {"none", "true", "false"}
    /\ RunReturned =>
          (run_result = "true" <=>
              (failed = "none" /\ stages = AllStages /\ load_result = "true"))
    /\ caller = "run" =>
          /\ Len(stages) <= Len(AllStages)
          /\ stages = SubSeq(AllStages, 1, Len(stages))
          /\ pc = "l_loop" =>
                /\ batch_size > 0 => li = Len(writes) * batch_size
                /\ Len(writes) <= Len(ldf.rows)

C6_Witness ==
    /\ RunReturned /\ run_result = "true" /\ Len(writes) = 2
    /\ ops = 2 /\ dest.rows # dest0.rows

\* C7: once a run has returned, start_time and end_time are both readings
\* of the clock taken during that run, start_time first.
C7_RunResult ==
    RunReturned =>
        /\ start_time = run_start
        /\ end_time >= run_start
        /\ start_time <= end_time

\* C8: a load of a table without rows, made with an engine and a batch_size
\* >= 1, has issued no write and returned True, whatever its mode.
C8_EmptyTable ==
    (LoadReturned /\ engine /\ batch_size >= 1 /\ Len(ldf.rows) = 0) =>
        /\ writes = <<>>
        /\ load_result = "true"
        /\ dest = dest0

C8_Witness ==
    /\ LoadReturned /\ engine /\ batch_size = 2 /\ Len(ldf.rows) = 0
    /\ caller = "client" /\ lmode = "replace" /\ dest.rows # <<>>
    /\ load_result = "true"

TransformReturned == tpc = "done" /\ tres.ok
HasBoth(df) == {"quantity", "price"} \subseteq df.cols

C10_DerivedField ==
    (TransformReturned /\ HasBoth(tdf)) =>
        \A j \in 1..Len(tres.df.rows) :
            LET r == tres.df.rows[j]
            IN  (IsNum(r["quantity"]) /\ IsNum(r["price"])) =>
                    /\ IsNum(r["total_amount"])
                    /\ r["total_amount"].n = r["quantity"].n * r["price"].n

\* Indices of the rows that no earlier row equals, and the k-th index of a
\* set of indices.
FirstIdx(rows) == {j \in 1..Len(rows) : \A i \in 1..(j - 1) : rows[i] # rows[j]}
NthOf(S, k) == CHOOSE j \in S : Cardinality({i \in S : i <= j}) = k

\* C11: the rows left by transform's duplicate removal are pairwise
\* different, and they are the rows of the input at the positions of first
\* occurrence, in input order.
C11_Dedup ==
    tpc = "done" =>
        /\ \A a, b \in 1..Len(tdedup) : a # b => tdedup[a] # tdedup[b]
        /\ Len(tdedup) = Cardinality(FirstIdx(targ.rows))
        /\ \A k \in 1..Len(tdedup) :
              tdedup[k] = targ.rows[NthOf(FirstIdx(targ.rows), k)]

C11_Witness ==
    /\ tpc = "done" /\ Len(targ.rows) = 3 /\ Len(tdedup) = 2
    /\ targ.rows[1] = targ.rows[3] /\ targ.rows[1] # targ.rows[2]
    /\ tdedup = SubSeq(targ.rows, 1, 2)

WithTotal == AllCols \cup {"total_amount"}

\* A table that is clean in the words of C12: no duplicate rows, non-null
\* transaction_id and date, positive numeric quantity and price, a
\* total_amount column.
CleanAsClaimed(df) ==
    /\ df.cols = WithTotal
    /\ \A a, b \in 1..Len(df.rows) : a # b => df.rows[a] # df.rows[b]
    /\ \A j \in 1..Len(df.rows) :
          LET r == df.rows[j]
          IN  /\ ~IsNull(r["transaction_id"]) /\ ~IsNull(r["date"])
              /\ IsNum(r["quantity"]) /\ r["quantity"].n > 0
              /\ IsNum(r["price"]) /\ r["price"].n > 0

\* C12 as claimed: transform returns every such table as it is.
C12_Idempotence ==
    (tpc = "done" /\ CleanAsClaimed(targ)) => (tres.ok /\ tres.df = targ)

\* Such a table whose quantity and price columns each hold one numeric type,
\* whose dates are timestamps already and whose total_amount is
\* quantity * price already (an int for two ints, a float otherwise).
CleanAndDerived(df) ==
    /\ CleanAsClaimed(df)
    /\ \A a, b \in 1..Len(df.rows) :
          /\ df.rows[a]["quantity"].k = df.rows[b]["quantity"].k
          /\ df.rows[a]["price"].k = df.rows[b]["price"].k
    /\ \A j \in 1..Len(df.rows) :
          LET r == df.rows[j]
          IN  /\ r["date"].k = "ts"
              /\ r["total_amount"].n = r["quantity"].n * r["price"].n
              /\ r["total_amount"].k =
                    IF r["quantity"].k = "int" /\ r["price"].k = "int"
                    THEN "int" ELSE "float"

\* C12, amended: transform returns every clean table whose quantity and
\* price columns are numeric columns, whose dates are timestamps and whose
\* total_amount equals quantity * price as it is.
C12_IdempotenceAmended ==
    (tpc = "done" /\ CleanAndDerived(targ)) => (tres.ok /\ tres.df = targ)

C12_Witness ==
    /\ tpc = "done" /\ CleanAndDerived(targ) /\ Len(targ.rows) = 2
    /\ tres.ok /\ tres.df = targ
    /\ targ.rows[2]["price"].k = "float"

\* C13: the duplicate_records of validate_data's report is the number of
\* rows transform's duplicate removal takes out of the same table.
C13_DuplicateCount ==
    (tpc = "done" /\ vpc = "done") =>
        report.duplicate_records = Len(targ.rows) - Len(tdedup)

C13_Witness ==
    /\ tpc = "done" /\ vpc = "done" /\ Len(targ.rows) = 3
    /\ report.duplicate_records = 1 /\ Len(tdedup) = 2

HasAll(df) == AllCols \subseteq df.cols
DatesParse(df) == \A j \in 1..Len(df.rows) : ~ToDatetime(df.rows[j]["date"]).err

\* Indices of the first occurrences with an id and a date whose coerced
\* quantity and price are > 0.
Qualifying(rows) ==
    {j \in FirstIdx(rows) :
        /\ ~IsNull(rows[j]["transaction_id"]) /\ ~IsNull(rows[j]["date"])
        /\ IsNum(ToNumeric(rows[j]["quantity"])) /\ ToNumeric(rows[j]["quantity"]).n > 0
        /\ IsNum(ToNumeric(rows[j]["price"])) /\ ToNumeric(rows[j]["price"]).n > 0}

\* The rows transform returned stem from the qualifying rows, in input order.
FromQualifying(rows, out) ==
    /\ Len(out) = Cardinality(Qualifying(rows))
    /\ \A k \in 1..Len(out) :
          LET r == rows[NthOf(Qualifying(rows), k)]
          IN  /\ out[k]["transaction_id"] = r["transaction_id"]
              /\ out[k]["date"] = ToDatetime(r["date"]).v
              /\ out[k]["quantity"] = ToNumeric(r["quantity"])
              /\ out[k]["price"] = ToNumeric(r["price"])

\* C17: for a table with the four columns and dates that parse, transform
\* returns, and returns exactly the first occurrences that have an id and a
\* date and whose coerced quantity and price are > 0, in input order.
C17_OutputRows ==
    (tpc = "done" /\ HasAll(targ) /\ DatesParse(targ)) =>
        (tres.ok /\ FromQualifying(targ.rows, tres.df.rows))

\* C18: the table handed to transform or validate_data is the same table
\* after the call, whether transform returned or raised.
C18_InputsUnchanged ==
    (tpc = "done" \/ vpc = "done") => tdf = targ

C18_Witness ==
    /\ tpc = "done" /\ vpc = "done" /\ tres.ok
    /\ Len(tres.df.rows) < Len(targ.rows) /\ tres.df.rows # <<>>
    /\ tdf = targ
    /\ report.total_records = Len(targ.rows)

\* C14: in a main --validate-only the only stages are extract and then
\* validate_data; connect_database, transform and load are not executed (no
\* engine, no clean table, no run or load result) and nothing is written.
C14_ValidateOnly ==
    caller = "main" =>
        /\ pc \in {"m_extract", "m_validate", "idle"}
        /\ Len(stages) <= 2
        /\ stages = SubSeq(<<"extract", "validate">>, 1, Len(stages))
        /\ ~engine
        /\ clean_data = NoFrame
        /\ run_result = "none" /\ load_result = "none"
        /\ writes = <<>>
        /\ dest = dest0

C14_Witness ==
    /\ caller = "main" /\ pc = "idle"
    /\ stages = <<"extract", "validate">>
    /\ report.total_records = 2
    /\ dest.rows # <<>> /\ dest = dest0

\* C15 as claimed: after a load with mode replace and a batch_size >= 1 has
\* returned True, the destination holds exactly the rows of the table, in
\* order, for every table.
C15_ReplaceOnce ==
    (load_result = "true" /\ lmode = "replace" /\ batch_size >= 1) =>
        dest.rows = ldf.rows

\* C15, amended: it does so for every table of at least one row; for a table
\* without rows nothing is written and the destination is left as it was.
C15_ReplaceOnceAmended ==
    (load_result = "true" /\ lmode = "replace" /\ batch_size >= 1) =>
        IF ldf.rows # <<>>
        THEN dest = Table(ldf.rows)
        ELSE writes = <<>> /\ dest = dest0

C15_Witness ==
    /\ load_result = "true" /\ lmode = "replace" /\ batch_size = 1
    /\ Len(ldf.rows) = 3 /\ Len(writes) = 3
    /\ dest0.rows # <<>> /\ dest = Table(ldf.rows)

\* C16: a run enters connect, extract, transform and load in this order,
\* each at most once and each only after the one before it succeeded; a stage
\* that failed is the run's last. Writes happen only in load, after transform
\* returned the table being loaded; the i-th write ever attempted carries the
\* i-th chunk, and a write that raised is the last one: nothing is retried.
C16_StageOrder ==
    caller = "run" =>
        /\ \A j \in 1..Len(stages) : j <= 4 /\ stages[j] = AllStages[j]
        /\ Len(stages) >= 2 => engine
        /\ failed # "none" =>
              /\ stages # <<>> /\ stages[Len(stages)] = failed
              /\ pc = "idle"
        /\ pc \in {"transform", "load"} => raw_data.cols # {}
        /\ pc = "load" => (Transform(raw_data).ok /\ clean_data = Transform(raw_data).df)
        /\ InLoad => (ldf = clean_data /\ stages = AllStages)
        /\ writes # <<>> => (stages = AllStages /\ failed = "none" /\ batch_size >= 1)
        /\ \A i \in 1..Len(writes) :
              /\ writes[i].rows =
                    SubSeq(ldf.rows, (i - 1) * batch_size + 1,
                           Min(i * batch_size, Len(ldf.rows)))
              /\ i < Len(writes) => writes[i].ok

C16_Witness ==
    /\ RunReturned /\ stages = AllStages /\ batch_size = 1
    /\ Len(writes) = 2 /\ writes[1].ok /\ ~writes[2].ok
    /\ run_result = "false"

\* The rows of all writes, in the order of the writes.
RECURSIVE RowsWritten(_)
RowsWritten(w) ==
    IF w = <<>> THEN <<>>
    ELSE RowsWritten(SubSeq(w, 1, Len(w) - 1)) \o w[Len(w)].rows

\* C19: whenever load has returned True, no write raised and the writes
\* carried every row of the table once, in table order, whatever the
\* configured batch_size.
C19_EveryRowOnce ==
    load_result = "true" =>
        (AllWritesOk /\ RowsWritten(writes) = ldf.rows)

\* C20: a load on an orchestrator without engine returns False, whatever the
\* table, and attempts no write; the loop is never entered without engine.
C20_NoEngine ==
    /\ (pc = "l_loop" \/ writes # <<>>) => engine
    /\ (LoadReturned /\ ~engine) =>
          (load_result = "false" /\ writes = <<>> /\ dest = dest0)

C20_Witness ==
    /\ caller = "client" /\ pc = "idle" /\ ~engine
    /\ load_result = "false" /\ ldf.rows = <<>> /\ lmode = "replace"
    /\ batch_size = 2 /\ writes = <<>>

====
